---- MODULE Spec2Model ----
(***************************************************************************)
(* A model of imfdatapy/data_inquiry.py: the name sanitizer and the lookup *)
(* environment, the TIME_PERIOD parser, the codelist resolver, the token   *)
(* acquisition protocol, the Connection (IMFData) and the Dataset Handle   *)
(* (DataSet).                                                              *)
(*                                                                         *)
(* Python strings are modelled as sequences of one-character strings, so   *)
(* that the regular expressions, split() and strip() are computed and not  *)
(* assumed.  None is the string "None", which is no member of any set of   *)
(* codes or identifiers used below.                                        *)
(***************************************************************************)
EXTENDS Integers, Sequences, FiniteSets, TLC

VARIABLES
    pc,             \* position of the call under study: "start" or "done"
    raised,         \* the exception the last call ended with, or None
    name,           \* sanitize: the argument
    sanitized,      \* sanitize: the returned string
    pairs,          \* make_env: the (label, code) pairs
    keep,           \* make_env: the keep policy
    env,            \* the mapping of the DimensionEnv a call returned
    time_col,       \* convert_time_period_auto: the values of df[time_col]
    result,         \* convert_time_period_auto: the list the loop builds
    out_col,        \* convert_time_period_auto: df_copy[out_col]
    ds_codelist,    \* resolve_codelist: ds.codelist, id -> codelist
    component,      \* resolve_codelist: the component
    resolved,       \* resolve_codelist: the returned codelist, or NoCodelist
    msal,           \* acquire_access_token: what the MSAL application answers
    acq,            \* acquire_access_token: the last run (events, result, message)
    constructed,    \* IMFData: whether __init__ has returned
    headers,        \* IMFData._headers
    authenticated,  \* IMFData.authenticated
    cache_file,     \* the accounts of the token cache file at CACHE_PATH
    calls,          \* IMFData: the number of calls made so far
    last_call,      \* IMFData, DataSet: the last method called and its argument
    msg,            \* DataSet.dataflow: the dimensions and the codelists
    rows            \* DataSet: the rows the last listing returned

sanVars == <<name, sanitized>>
envVars == <<pairs, keep>>
convVars == <<time_col, result, out_col>>
resVars == <<ds_codelist, component, resolved>>
authVars == <<msal, acq>>
connVars == <<constructed, headers, authenticated, cache_file, calls>>
dsVars == <<msg, rows>>

vars == <<pc, raised, env, last_call, sanVars, envVars, convVars, resVars,
          authVars, connVars, dsVars>>

None == "None"

(***************************************************************************)
(* Characters.                                                             *)
(***************************************************************************)
AsciiLetters ==
    {"a", "b", "c", "d", "e", "f", "g", "h", "i", "j", "k", "l", "m",
     "n", "o", "p", "q", "r", "s", "t", "u", "v", "w", "x", "y", "z",
     "A", "B", "C", "D", "E", "F", "G", "H", "I", "J", "K", "L", "M",
     "N", "O", "P", "Q", "R", "S", "T", "U", "V", "W", "X", "Y", "Z"}
DecimalDigits == {"0", "1", "2", "3", "4", "5", "6", "7", "8", "9"}
\* "sup2" stands for U+00B2: str.isdigit() is true of it, int() rejects it.
OtherDigits == {"sup2"}
\* "eacute" stands for U+00E9: a letter for str.isalpha(), not in [a-zA-Z].
OtherLetters == {"eacute"}
Whitespace == {" ", "tab"}

\* [a-zA-Z0-9\s] of line 24
IsKept(c) == c \in AsciiLetters \cup DecimalDigits \cup Whitespace

\* str.isalpha() of one character
IsAlpha(c) == c \in AsciiLetters \cup OtherLetters

(***************************************************************************)
(* sanitize (lines 20-30).                                                 *)
(***************************************************************************)
\* re.sub(r"[^a-zA-Z0-9\s]", "_", name)
SubNonAlnum(s) == [i \in 1..Len(s) |-> IF IsKept(s[i]) THEN s[i] ELSE "_"]

\* re.sub(<one or more characters of set>, "_", s): each maximal run of
\* characters of `set` becomes one "_".
RECURSIVE SubRuns(_, _)
SubRuns(s, set) ==
    IF s = <<>> THEN <<>>
    ELSE IF Head(s) \in set
         THEN IF Len(s) > 1 /\ s[2] \in set
              THEN SubRuns(Tail(s), set)
              ELSE <<"_">> \o SubRuns(Tail(s), set)
         ELSE <<Head(s)>> \o SubRuns(Tail(s), set)

RECURSIVE LStrip(_, _)
LStrip(s, set) ==
    IF s # <<>> /\ Head(s) \in set THEN LStrip(Tail(s), set) ELSE s

RECURSIVE RStrip(_, _)
RStrip(s, set) ==
    IF s # <<>> /\ s[Len(s)] \in set
    THEN RStrip(SubSeq(s, 1, Len(s) - 1), set)
    ELSE s

\* str.strip(chars)
StripChars(s, set) == RStrip(LStrip(s, set), set)

\* a sanitizer that prefixes only the empty string
PrefixX_OnlyEmpty(s) == IF s = <<>> THEN <<"X">> \o s ELSE s

PrefixX(s) == IF s = <<>> \/ ~IsAlpha(s[1]) THEN <<"X">> \o s ELSE s

sanitize(s) ==
    PrefixX(StripChars(SubRuns(SubRuns(SubNonAlnum(s), Whitespace), {"_"}), {"_"}))

(***************************************************************************)
(* make_env (lines 51-63).  d is the dict under construction, a function   *)
(* from keys to codes.                                                     *)
(***************************************************************************)
EmptyDict == [k \in {} |-> None]

\* d.setdefault(k, code)
SetDefault(d, k, code) ==
    [x \in DOMAIN d \cup {k} |-> IF x \in DOMAIN d THEN d[x] ELSE code]

\* d[k] = code
SetItem(d, k, code) ==
    [x \in DOMAIN d \cup {k} |-> IF x = k THEN code ELSE d[x]]

\* an iteration without the test of the code
EnvStep_NoSkip(d, label, code, kp) ==
    LET k == sanitize(label) IN
    IF kp = "first" THEN SetDefault(d, k, code) ELSE SetItem(d, k, code)

\* one iteration of the loop of lines 53-62
EnvStep(d, label, code, kp) ==
    IF code \in {None, ""} THEN d
    ELSE LET k == sanitize(label) IN
         IF k = <<>> THEN d
         ELSE IF kp = "first" THEN SetDefault(d, k, code)
              ELSE SetItem(d, k, code)

RECURSIVE EnvLoop(_, _, _)
EnvLoop(d, ps, kp) ==
    IF ps = <<>> THEN d
    ELSE EnvLoop(EnvStep(d, Head(ps).label, Head(ps).code, kp), Tail(ps), kp)

make_env(ps, kp) == EnvLoop(EmptyDict, ps, kp)

(***************************************************************************)
(* convert_time_period_auto (lines 202-248).  A date is a record; NaT is   *)
(* the record no calendar date equals.                                     *)
(***************************************************************************)
NaT == [year |-> -1, month |-> 0, day |-> 0]

Date(y, m, d) == [year |-> y, month |-> m, day |-> d]

\* datetime.MINYEAR and datetime.MAXYEAR: pd.Timestamp(year=...) raises
\* ValueError for a year outside them (lines 223, 233, 238).
MINYEAR == 1
MAXYEAR == 9999

IsLeap(y) == (y % 4 = 0 /\ y % 100 # 0) \/ y % 400 = 0

DaysInMonth(y, m) ==
    IF m = 2 THEN (IF IsLeap(y) THEN 29 ELSE 28)
    ELSE IF m \in {4, 6, 9, 11} THEN 30 ELSE 31

\* whether pd.Timestamp(year=y, month=m, day=d) raises
TimestampRaises(y, m, d) ==
    \/ y < MINYEAR \/ y > MAXYEAR
    \/ m < 1 \/ m > 12
    \/ d < 1 \/ d > DaysInMonth(y, m)

\* ts + pd.offsets.MonthEnd(1): the next month end strictly after ts
PlusMonthEnd(ts) ==
    IF ts.day < DaysInMonth(ts.year, ts.month)
    THEN Date(ts.year, ts.month, DaysInMonth(ts.year, ts.month))
    ELSE IF ts.month = 12 THEN Date(ts.year + 1, 1, 31)
    ELSE Date(ts.year, ts.month + 1, DaysInMonth(ts.year, ts.month + 1))

\* sep in val
Contains(val, sep) ==
    \E i \in 1..(Len(val) - Len(sep) + 1) : SubSeq(val, i, i + Len(sep) - 1) = sep

\* val.split(sep): the parts between the occurrences of sep, left to right
RECURSIVE SplitFrom(_, _, _)
SplitFrom(s, sep, cur) ==
    IF Len(s) < Len(sep) THEN <<cur \o s>>
    ELSE IF SubSeq(s, 1, Len(sep)) = sep
         THEN <<cur>> \o SplitFrom(SubSeq(s, Len(sep) + 1, Len(s)), sep, <<>>)
         ELSE SplitFrom(Tail(s), sep, Append(cur, Head(s)))

Split(val, sep) == SplitFrom(val, sep, <<>>)

\* str.isdigit()
IsDigit(s) == s # <<>> /\ \A i \in 1..Len(s) : s[i] \in DecimalDigits \cup OtherDigits

\* whether int(s) raises ValueError, for s with s.isdigit()
IntRaises(s) == \E i \in 1..Len(s) : s[i] \notin DecimalDigits

DigitValue(c) ==
    CASE c = "0" -> 0 [] c = "1" -> 1 [] c = "2" -> 2 [] c = "3" -> 3
      [] c = "4" -> 4 [] c = "5" -> 5 [] c = "6" -> 6 [] c = "7" -> 7
      [] c = "8" -> 8 [] c = "9" -> 9

\* int(s), for s of decimal digits
RECURSIVE IntOf(_)
IntOf(s) ==
    IF s = <<>> THEN 0
    ELSE 10 * IntOf(SubSeq(s, 1, Len(s) - 1)) + DigitValue(s[Len(s)])

Continue(dt) == [kind |-> "continue", dt |-> dt]
Fall == [kind |-> "fall", dt |-> NaT]
Raise == [kind |-> "raise", dt |-> NaT]

\* lines 218-225 (marker "-M", factor 1) and 227-235 (marker "-Q", factor 3):
\* what the branch does with val once the marker is in val
PeriodBranch(val, marker, top, factor) ==
    LET parts == Split(val, marker) IN
    IF Len(parts) # 2 THEN Raise                  \* unpacking into two names
    ELSE LET year_str == parts[1]
             part == parts[2]
         IN IF ~(IsDigit(year_str) /\ IsDigit(part)) THEN Fall
            ELSE IF IntRaises(year_str) \/ IntRaises(part) THEN Raise
            ELSE LET year == IntOf(year_str)
                     n == IntOf(part)
                 IN IF ~(1 <= n /\ n <= top) THEN Fall
                    ELSE IF TimestampRaises(year, n * factor, 1) THEN Raise
                    ELSE Continue(PlusMonthEnd(Date(year, n * factor, 1)))

\* a year branch without the length test
YearBranch_AnyLength(val) ==
    IF ~IsDigit(val) THEN Fall
    ELSE IF IntRaises(val) THEN Raise
    ELSE IF TimestampRaises(IntOf(val), 12, 31) THEN Raise
    ELSE Continue(Date(IntOf(val), 12, 31))

\* lines 236-239
YearBranch(val) ==
    IF ~(IsDigit(val) /\ Len(val) = 4) THEN Fall
    ELSE IF IntRaises(val) THEN Raise
    ELSE IF TimestampRaises(IntOf(val), 12, 31) THEN Raise
    ELSE Continue(Date(IntOf(val), 12, 31))

\* the body of the try statement, lines 217-239, on the stripped value
TryBody(val) ==
    IF Contains(val, <<"-", "M">>) THEN PeriodBranch(val, <<"-", "M">>, 12, 1)
    ELSE IF Contains(val, <<"-", "Q">>) THEN PeriodBranch(val, <<"-", "Q">>, 4, 3)
    ELSE YearBranch(val)

\* a handler that lets the exception leave the loop
ExceptCatches_Nothing(outcome) == FALSE

\* lines 240-241: except Exception: pass
ExceptCatches(outcome) == outcome.kind = "raise"

\* one iteration of the loop, lines 214-244, on the accumulator
\* [result, raised]: what it appends, or the exception that leaves the loop
RowStep(acc, val) ==
    LET t == TryBody(StripChars(val, Whitespace)) IN
    IF acc.raised # None THEN acc
    ELSE IF t.kind = "continue" THEN [acc EXCEPT !.result = Append(@, t.dt)]
    ELSE IF t.kind = "raise" /\ ~ExceptCatches(t) THEN [acc EXCEPT !.raised = "ValueError"]
    ELSE [acc EXCEPT !.result = Append(@, NaT)]

RECURSIVE RowLoop(_, _)
RowLoop(acc, vals) ==
    IF vals = <<>> THEN acc ELSE RowLoop(RowStep(acc, Head(vals)), Tail(vals))

\* pd.to_datetime(result), line 247: the same dates as a datetime column
ToDatetime(res) == [i \in 1..Len(res) |-> IF res[i] = NaT THEN NaT ELSE res[i]]

\* the whole call: [result, out_col, raised]; assigning a column of another
\* length than the frame raises ValueError (line 247)
convert_time_period_auto(vals) ==
    LET acc == RowLoop([result |-> <<>>, raised |-> None], vals) IN
    IF acc.raised # None
    THEN [result |-> acc.result, out_col |-> <<>>, raised |-> acc.raised]
    ELSE IF Len(acc.result) # Len(vals)
    THEN [result |-> acc.result, out_col |-> <<>>, raised |-> "ValueError"]
    ELSE [result |-> acc.result, out_col |-> ToDatetime(acc.result), raised |-> None]

(***************************************************************************)
(* resolve_codelist (lines 172-196).  A codelist is a record of its id and *)
(* its number of codes; NoCodelist is None.  A representation and a        *)
(* concept are records with a `present` field, FALSE for None.             *)
(***************************************************************************)
NoCodelist == [id |-> None, n_codes |-> 0]

Codelist(id, n) == [id |-> id, n_codes |-> n]

Representation(enumerated) == [present |-> TRUE, enumerated |-> enumerated]
NoRepresentation == [present |-> FALSE, enumerated |-> NoCodelist]

Concept(core) == [present |-> TRUE, core_representation |-> core]
NoConcept == [present |-> FALSE, core_representation |-> NoRepresentation]

\* `if enum_ref`: None is false, and so is a codelist without codes, since
\* a codelist has a length (len(cl), line 370) and no truth value of its own
Truthy(ref) == ref # NoCodelist /\ ref.n_codes > 0

\* f"CL_{component.id}"
GuessId(id) ==
    CASE id = "FREQ" -> "CL_FREQ"
      [] id = "REF_AREA" -> "CL_REF_AREA"
      [] id = "TIME_PERIOD" -> "CL_TIME_PERIOD"

resolve_codelist(ds, comp) ==
    LET lr == comp.local_representation
        enum_lr == IF lr.present THEN lr.enumerated ELSE NoCodelist
        concept == comp.concept_identity
        cr == IF concept.present THEN concept.core_representation ELSE NoRepresentation
        enum_cr == IF cr.present THEN cr.enumerated ELSE NoCodelist
        guess_id == GuessId(comp.id)
    IN IF Truthy(enum_lr) /\ enum_lr.id \in DOMAIN ds THEN ds[enum_lr.id]
       ELSE IF Truthy(enum_cr) /\ enum_cr.id \in DOMAIN ds THEN ds[enum_cr.id]
       ELSE IF guess_id \in DOMAIN ds THEN ds[guess_id]
       ELSE NoCodelist

(***************************************************************************)
(* acquire_access_token (lines 100-138).  A result of the MSAL application *)
(* is None or a dict, a function from its keys to strings.                 *)
(***************************************************************************)
NoResult == [none |-> TRUE, fields |-> <<>>]

Dict(f) == [none |-> FALSE, fields |-> f]

\* `not result`: None and the empty dict
Falsy(r) == r.none \/ DOMAIN r.fields = {}

\* "access_token" in result
HasToken(r) == ~r.none /\ "access_token" \in DOMAIN r.fields

\* (result or {}).get("error_description", (result or {}).get("error", "unknown error"))
ErrorOf(r) ==
    LET d == IF Falsy(r) THEN <<>> ELSE r.fields IN
    IF "error_description" \in DOMAIN d THEN d["error_description"]
    ELSE IF "error" \in DOMAIN d THEN d["error"]
    ELSE "unknown error"

\* a write-back that does not look at the flag
PersistCache_Always(has_state_changed) == <<"write">>

\* _persist_cache, lines 108-111: the events it adds to the run
PersistCache(has_state_changed) ==
    IF has_state_changed THEN <<"write">> ELSE <<>>

\* line 132: `if not result`
NeedsInteractive(r) == Falsy(r)

\* The run of acquire_access_token against an application that holds the
\* accounts lib.accounts and answers lib.silent and lib.interactive, each
\* attempt changing the cache state or not.
acquire_access_token(lib) ==
    LET silent == lib.accounts # <<>>
        r1 == IF silent THEN lib.silent ELSE NoResult
        interactive == NeedsInteractive(r1)
        r2 == IF interactive THEN lib.interactive ELSE r1
        changed == \/ silent /\ lib.silent_changes
                   \/ interactive /\ lib.interactive_changes
        failed == Falsy(r2) \/ ~HasToken(r2)
    IN [ events |-> <<"load">>
                    \o (IF silent THEN <<"silent">> ELSE <<>>)
                    \o (IF interactive THEN <<"interactive">> ELSE <<>>)
                    \o PersistCache(changed)
                    \o (IF failed THEN <<"raise">> ELSE <<"return">>),
         silent_account |-> IF silent THEN lib.accounts[1] ELSE None,
         has_state_changed |-> changed,
         result |-> r2,
         raised |-> IF failed THEN "RuntimeError" ELSE None,
         message |-> IF failed THEN ErrorOf(r2) ELSE None ]

(***************************************************************************)
(* get_request_header (lines 140-152) and IMFData (lines 251-278).         *)
(* Headers are a function from header names to values; a value is a tuple  *)
(* of its words.                                                           *)
(***************************************************************************)
BaseHeaders == [h \in {"User-Agent"} |-> <<"imfidata-client">>]

\* lines 148-152, given the run of acquire_access_token
AuthHeaders(a) ==
    IF a.raised # None THEN [raised |-> a.raised, headers |-> BaseHeaders]
    ELSE LET token_resp == a.result.fields
             token_type == IF "token_type" \in DOMAIN token_resp
                           THEN token_resp["token_type"] ELSE "Bearer"
         IN [raised |-> None,
             headers |-> [h \in {"User-Agent", "Authorization"} |->
                            IF h = "User-Agent" THEN <<"imfidata-client">>
                            ELSE <<token_type, token_resp["access_token"]>>]]

\* a header builder that answers a failed acquisition with the plain headers
get_request_header_SwallowsError(auth, a) ==
    IF ~auth \/ a.raised # None THEN [raised |-> None, headers |-> BaseHeaders]
    ELSE AuthHeaders(a)

\* get_request_header(auth), a being the run of acquire_access_token
get_request_header(auth, a) ==
    IF ~auth THEN [raised |-> None, headers |-> BaseHeaders]
    ELSE AuthHeaders(a)

\* the accounts of the cache file after the run a: the file is written when
\* the run holds a "write", and then holds the account of an obtained token
FileAfter(file, a) ==
    IF \E i \in 1..Len(a.events) : a.events[i] = "write"
    THEN (IF HasToken(a.result) /\ file = <<>> THEN <<"user">> ELSE file)
    ELSE file

(***************************************************************************)
(* DataSet (lines 319-408).  A dimension is a component as above; the      *)
(* codelists of the message map an id to the rows of its codes.            *)
(***************************************************************************)
\* the characters of the strings that are sanitized below
Chars(str) ==
    CASE str = "dimension" -> <<"d", "i", "m", "e", "n", "s", "i", "o", "n">>
      [] str = "FREQ" -> <<"F", "R", "E", "Q">>
      [] str = "REF_AREA" -> <<"R", "E", "F", "_", "A", "R", "E", "A">>
      [] str = "TIME_PERIOD" -> <<"T", "I", "M", "E", "_", "P", "E", "R", "I", "O", "D">>
      [] str = "Annual" -> <<"A", "n", "n", "u", "a", "l">>
      [] str = "Monthly" -> <<"M", "o", "n", "t", "h", "l", "y">>
      [] str = "" -> <<>>

\* the keys of a row of _dimension_names, in insertion order (line 346)
DimensionRowKeys == <<"dimension", "codelists">>

DimensionRow(dim_id, cl_id) == [dimension |-> dim_id, codelists |-> cl_id]

\* lines 338-346: the rows so far, or the AttributeError of reading
\* .core_representation of None or .enumerated of None
RECURSIVE DimensionRows(_, _)
DimensionRows(dims, acc) ==
    IF dims = <<>> THEN [raised |-> None, rows |-> acc]
    ELSE LET dim == Head(dims)
             conceptIdentity == dim.concept_identity
         IN IF ~conceptIdentity.present \/ ~conceptIdentity.core_representation.present
            THEN [raised |-> "AttributeError", rows |-> <<>>]
            ELSE LET codelist == conceptIdentity.core_representation.enumerated
                     cl_id == IF codelist # NoCodelist THEN codelist.id ELSE None
                 IN DimensionRows(Tail(dims), Append(acc, DimensionRow(dim.id, cl_id)))

\* DataSet._dimension_names()
dimension_names(m) == DimensionRows(m.dimensions, <<>>)

\* `for label, code in pairs` on a row that is a dict: the two names take
\* the row's keys, not its values
UnpackRow(row) == [label |-> Chars(DimensionRowKeys[1]), code |-> DimensionRowKeys[2]]

\* get_dimension_names_env(), lines 357-361
get_dimension_names_env(m) ==
    LET r == dimension_names(m) IN
    IF r.raised # None THEN [raised |-> r.raised, env |-> EmptyDict]
    ELSE [raised |-> None,
          env |-> make_env([i \in 1..Len(r.rows) |-> UnpackRow(r.rows[i])], "first")]

\* _get_codelist(codelist_id), lines 377-395
get_codelist(m, codelist_id) ==
    IF codelist_id \notin DOMAIN m.codelist
    THEN [raised |-> "ValueError", rows |-> <<>>]
    ELSE [raised |-> None, rows |-> m.codelist[codelist_id]]

\* get_codelist_env(codelist_id), lines 404-405: the argument is evaluated,
\* then make_env is called with three positional arguments and takes one
get_codelist_env(m, codelist_id) ==
    LET r == get_codelist(m, codelist_id) IN
    IF r.raised # None THEN [raised |-> r.raised, env |-> EmptyDict]
    ELSE [raised |-> "TypeError", env |-> EmptyDict]

(***************************************************************************)
(* Bounded inputs.                                                         *)
(***************************************************************************)
\* the sequences over S of length at most n
SeqsUpTo(S, n) == UNION {[1..k -> S] : k \in 0..n}

MaxNameLen == 4
NameAlphabet == {"a", "Y", "1", "_", " ", "$", "eacute"}
Names == SeqsUpTo(NameAlphabet, MaxNameLen)

MaxPairs == 3
Labels == {<<"a", " ", "b">>, <<"a", "$", "b">>, <<"1">>, <<"X", "1">>}
Codes == {None, "", "GDP", "GDP2"}
PairValues == [label : Labels, code : Codes]
KeepPolicies == {"first", "last"}

MaxValLen == 4
ValAlphabet == {"0", "1", "2", "4", "5", "-", "M", "Q", " ", "sup2"}
Vals == SeqsUpTo(ValAlphabet, MaxValLen)

\* values longer than MaxValLen, the documented examples among them
LongVals ==
    { <<"1", "9", "6", "0", "-", "M", "0", "4">>,
      <<"1", "9", "6", "0", "-", "Q", "2">>,
      <<"1", "9", "6", "0", "-", "M", "1", "3">>,
      <<"2", "0", "2", "4", "-", "M", "0", "2">>,
      <<"1", "9", "0", "0", "-", "M", "2">>,
      <<"2", "0", "2", "5", "-", "M", "1", "2">>,
      <<"2", "0", "2", "5", "-", "Q", "5">>,
      <<"tab", "2", "0", "2", "5", "-", "Q", "4", " ">>,
      <<"0", "0", "0", "0", "-", "Q", "1">>,
      <<"1", "-", "M", "1", "-", "M", "1">>,
      <<"1", "-", "Q", "1", "-", "M", "1">>,
      <<"2", "0", "2", "5", "-", "M", "sup2">>,
      <<"2", "0", "2", "5", "4">>,
      <<" ", "1", "9", "6", "0", " ">> }

MaxRows == 2
RowPool ==
    { <<"2", "0", "2", "4">>, <<"0", "0", "0", "0">>,
      <<"2", "0", "2", "4", "-", "M", "0", "2">>,
      <<"2", "0", "2", "5", "-", "M", "1", "4">>,
      <<" ", "2", "0", "2", "5", "-", "Q", "4", " ">>,
      <<"1", "-", "M", "1", "-", "M", "1">>,
      <<"2", "0", "2", "sup2">>,
      <<"M">> }

CodelistIds == {"CL_FREQ", "CL_AREA"}
CodelistSizes == {0, 2}
ComponentIds == {"FREQ", "REF_AREA"}

References == {NoCodelist} \cup {Codelist(id, n) : id \in CodelistIds, n \in CodelistSizes}
Representations == {NoRepresentation} \cup {Representation(e) : e \in References}
Concepts == {NoConcept} \cup {Concept(r) : r \in Representations}
Components ==
    [id : ComponentIds, local_representation : Representations, concept_identity : Concepts]

\* ds.codelist: each codelist under its own id
CodelistCollections ==
    UNION { { [id \in ids |-> Codelist(id, size[id])] : size \in [ids -> CodelistSizes] } :
              ids \in SUBSET CodelistIds }

Tokens == {"t1", "t2"}
TokenDicts ==
    { Dict([k \in {"access_token"} |-> t]) : t \in Tokens }
    \cup { Dict([k \in {"access_token", "token_type"} |->
                   IF k = "access_token" THEN t ELSE "PoP"]) : t \in Tokens }
ErrorDicts ==
    { Dict([k \in {"error"} |-> "invalid_grant"]),
      Dict([k \in {"error_description"} |-> "expired"]),
      Dict([k \in {"error", "error_description"} |->
              IF k = "error" THEN "invalid_grant" ELSE "expired"]),
      Dict([k \in {"token_type"} |-> "PoP"]) }
Results == {NoResult, Dict(<<>>)} \cup TokenDicts \cup ErrorDicts

AccountLists == {<<>>, <<"user">>, <<"user", "other">>}

\* what the MSAL application can answer when the cache holds `accounts`
Answers(accounts) ==
    [accounts : {accounts}, silent : Results, silent_changes : BOOLEAN,
     interactive : Results, interactive_changes : BOOLEAN]

\* the answers the Connection's calls are run against
ConnResults ==
    { NoResult,
      Dict([k \in {"access_token"} |-> "t1"]),
      Dict([k \in {"access_token", "token_type"} |->
              IF k = "access_token" THEN "t2" ELSE "PoP"]),
      Dict([k \in {"error"} |-> "invalid_grant"]) }
ConnAnswers(accounts) ==
    [accounts : {accounts}, silent : ConnResults, silent_changes : BOOLEAN,
     interactive : ConnResults, interactive_changes : BOOLEAN]

MaxCalls == 3

MaxDims == 2
\* the dimensions of a data structure: each identifies a concept, none has a
\* local representation
Dimensions ==
    [id : ComponentIds \cup {"TIME_PERIOD"}, local_representation : {NoRepresentation},
     concept_identity : {Concept(NoRepresentation),
                         Concept(Representation(NoCodelist)),
                         Concept(Representation(Codelist("CL_FREQ", 2))),
                         Concept(Representation(Codelist("CL_AREA", 0)))}]

CodeRow(id, n) == [code_id |-> id, name |-> n, description |-> ""]
CodeRowLists ==
    { <<>>, <<CodeRow("A", "Annual"), CodeRow("M", "Monthly")>>,
      <<CodeRow("A", "Annual"), CodeRow("A2", "Annual")>>, <<CodeRow("", "Monthly")>> }
MessageCodelists ==
    UNION { [ids -> CodeRowLists] : ids \in SUBSET CodelistIds }
Messages == [dimensions : SeqsUpTo(Dimensions, MaxDims), codelist : MessageCodelists]

(***************************************************************************)
(* Idle values of the variables a specification does not use.              *)
(***************************************************************************)
IdleAcq ==
    [events |-> <<>>, silent_account |-> None, has_state_changed |-> FALSE,
     result |-> NoResult, raised |-> None, message |-> None]
IdleMessage == [dimensions |-> <<>>, codelist |-> <<>>]
IdleComponent ==
    [id |-> "FREQ", local_representation |-> NoRepresentation,
     concept_identity |-> NoConcept]

IdleSanitize == name = <<>> /\ sanitized = <<>>
IdleEnv == pairs = <<>> /\ keep = "first"
IdleConvert == time_col = <<>> /\ result = <<>> /\ out_col = <<>>
IdleResolve == ds_codelist = <<>> /\ component = IdleComponent /\ resolved = NoCodelist
IdleAnswers ==
    [accounts |-> <<>>, silent |-> NoResult, silent_changes |-> FALSE,
     interactive |-> NoResult, interactive_changes |-> FALSE]
IdleAuth == msal = IdleAnswers /\ acq = IdleAcq
IdleConn ==
    /\ constructed = FALSE /\ headers = <<>> /\ authenticated = FALSE
    /\ cache_file = <<>> /\ calls = 0
IdleDataSet == msg = IdleMessage /\ rows = <<>>

NoCall == <<None, None>>

Start == pc = "start" /\ raised = None /\ env = EmptyDict /\ last_call = NoCall

(***************************************************************************)
(* Specification of sanitize.                                              *)
(***************************************************************************)
InitSanitize ==
    /\ Start
    /\ name \in Names
    /\ sanitized = <<>>
    /\ IdleEnv /\ IdleConvert /\ IdleResolve /\ IdleAuth /\ IdleConn /\ IdleDataSet

Sanitize ==
    /\ pc = "start"
    /\ sanitized' = sanitize(name)
    /\ pc' = "done"
    /\ UNCHANGED <<raised, env, last_call, name, envVars, convVars, resVars,
                   authVars, connVars, dsVars>>

SpecSanitize == InitSanitize /\ [][Sanitize]_vars

(***************************************************************************)
(* Specification of make_env.                                              *)
(***************************************************************************)
InitEnv ==
    /\ Start
    /\ pairs \in SeqsUpTo(PairValues, MaxPairs)
    /\ keep \in KeepPolicies
    /\ IdleSanitize /\ IdleConvert /\ IdleResolve /\ IdleAuth /\ IdleConn /\ IdleDataSet

MakeEnv ==
    /\ pc = "start"
    /\ env' = make_env(pairs, keep)
    /\ pc' = "done"
    /\ UNCHANGED <<raised, last_call, sanVars, envVars, convVars, resVars,
                   authVars, connVars, dsVars>>

SpecEnv == InitEnv /\ [][MakeEnv]_vars

(***************************************************************************)
(* Specifications of convert_time_period_auto: on one value of every shape *)
(* (SpecParse) and on columns of several rows (SpecColumn).                *)
(***************************************************************************)
ConvertTimePeriodAuto ==
    /\ pc = "start"
    /\ LET r == convert_time_period_auto(time_col) IN
       /\ result' = r.result
       /\ out_col' = r.out_col
       /\ raised' = r.raised
    /\ pc' = "done"
    /\ UNCHANGED <<env, last_call, time_col, sanVars, envVars, resVars,
                   authVars, connVars, dsVars>>

InitParse ==
    /\ Start
    /\ time_col \in {<<v>> : v \in Vals \cup LongVals}
    /\ result = <<>>
    /\ out_col = <<>>
    /\ IdleSanitize /\ IdleEnv /\ IdleResolve /\ IdleAuth /\ IdleConn /\ IdleDataSet

SpecParse == InitParse /\ [][ConvertTimePeriodAuto]_vars

InitColumn ==
    /\ Start
    /\ time_col \in SeqsUpTo(RowPool, MaxRows)
    /\ result = <<>>
    /\ out_col = <<>>
    /\ IdleSanitize /\ IdleEnv /\ IdleResolve /\ IdleAuth /\ IdleConn /\ IdleDataSet

SpecColumn == InitColumn /\ [][ConvertTimePeriodAuto]_vars

(***************************************************************************)
(* Specification of resolve_codelist.                                      *)
(***************************************************************************)
InitResolve ==
    /\ Start
    /\ ds_codelist \in CodelistCollections
    /\ component \in Components
    /\ resolved = NoCodelist
    /\ IdleSanitize /\ IdleEnv /\ IdleConvert /\ IdleAuth /\ IdleConn /\ IdleDataSet

ResolveCodelist ==
    /\ pc = "start"
    /\ resolved' = resolve_codelist(ds_codelist, component)
    /\ pc' = "done"
    /\ UNCHANGED <<raised, env, last_call, ds_codelist, component, sanVars,
                   envVars, convVars, authVars, connVars, dsVars>>

SpecResolve == InitResolve /\ [][ResolveCodelist]_vars

(***************************************************************************)
(* Specification of acquire_access_token.                                  *)
(***************************************************************************)
InitAuth ==
    /\ Start
    /\ msal \in UNION {Answers(a) : a \in AccountLists}
    /\ acq = IdleAcq
    /\ IdleSanitize /\ IdleEnv /\ IdleConvert /\ IdleResolve /\ IdleConn /\ IdleDataSet

AcquireAccessToken ==
    /\ pc = "start"
    /\ acq' = acquire_access_token(msal)
    /\ raised' = acq'.raised
    /\ pc' = "done"
    /\ UNCHANGED <<env, last_call, msal, sanVars, envVars, convVars, resVars,
                   connVars, dsVars>>

SpecAuth == InitAuth /\ [][AcquireAccessToken]_vars

(***************************************************************************)
(* Specification of the Connection: construction, then authenticate() and  *)
(* remove_authentication() in any order.  Each call that asks for a token  *)
(* runs acquire_access_token against the cache file as the last run left   *)
(* it and against any answer of the MSAL application.                      *)
(***************************************************************************)
InitConn ==
    /\ Start
    /\ constructed = FALSE
    /\ headers = <<>>
    /\ authenticated = FALSE
    /\ cache_file \in {<<>>, <<"user">>}
    /\ calls = 0
    /\ IdleAuth
    /\ IdleSanitize /\ IdleEnv /\ IdleConvert /\ IdleResolve /\ IdleDataSet

\* IMFData(authentication), lines 255-258
Construct(authentication, lib) ==
    /\ ~constructed
    /\ calls < MaxCalls
    /\ LET a == IF authentication THEN acquire_access_token(lib) ELSE IdleAcq
           h == get_request_header(authentication, a)
       IN /\ raised' = h.raised
          /\ acq' = a
          /\ cache_file' = FileAfter(cache_file, a)
          /\ IF h.raised # None
             THEN UNCHANGED <<constructed, headers, authenticated>>
             ELSE /\ constructed' = TRUE
                  /\ headers' = h.headers
                  /\ authenticated' = authentication
    /\ calls' = calls + 1
    /\ last_call' = <<"__init__", None>>
    /\ UNCHANGED <<pc, env, msal, sanVars, envVars, convVars, resVars, dsVars>>

\* authenticate(), lines 266-271
Authenticate(lib) ==
    /\ constructed
    /\ calls < MaxCalls
    /\ LET a == acquire_access_token(lib)
           h == get_request_header(TRUE, a)
       IN /\ raised' = h.raised
          /\ acq' = a
          /\ cache_file' = FileAfter(cache_file, a)
          /\ IF h.raised # None
             THEN UNCHANGED <<headers, authenticated>>
             ELSE /\ headers' = h.headers
                  /\ authenticated' = TRUE
    /\ calls' = calls + 1
    /\ last_call' = <<"authenticate", None>>
    /\ UNCHANGED <<pc, env, msal, constructed, sanVars, envVars, convVars, resVars,
                   dsVars>>

\* remove_authentication(), lines 273-278
RemoveAuthentication ==
    /\ constructed
    /\ calls < MaxCalls
    /\ headers' = get_request_header(FALSE, IdleAcq).headers
    /\ authenticated' = FALSE
    /\ raised' = None
    /\ calls' = calls + 1
    /\ last_call' = <<"remove_authentication", None>>
    /\ UNCHANGED <<pc, env, constructed, cache_file, sanVars, envVars, convVars,
                   resVars, authVars, dsVars>>

NextConn ==
    \/ \E authentication \in BOOLEAN, lib \in ConnAnswers(cache_file) :
           Construct(authentication, lib)
    \/ \E lib \in ConnAnswers(cache_file) : Authenticate(lib)
    \/ RemoveAuthentication

SpecConn == InitConn /\ [][NextConn]_vars

(***************************************************************************)
(* Specification of the Dataset Handle: one listing call on a bound        *)
(* message.                                                                *)
(***************************************************************************)
InitDataSet ==
    /\ Start
    /\ msg \in Messages
    /\ rows = <<>>
    /\ IdleSanitize /\ IdleEnv /\ IdleConvert /\ IdleResolve /\ IdleAuth /\ IdleConn

\* get_dimension_names(), lines 349-355
GetDimensionNames ==
    /\ pc = "start"
    /\ LET r == dimension_names(msg) IN
       /\ raised' = r.raised
       /\ rows' = r.rows
    /\ last_call' = <<"get_dimension_names", None>>
    /\ pc' = "done"
    /\ UNCHANGED <<env, msg, sanVars, envVars, convVars, resVars, authVars, connVars>>

\* get_dimension_names_env()
GetDimensionNamesEnv ==
    /\ pc = "start"
    /\ LET r == get_dimension_names_env(msg) IN
       /\ raised' = r.raised
       /\ env' = r.env
    /\ last_call' = <<"get_dimension_names_env", None>>
    /\ pc' = "done"
    /\ UNCHANGED <<msg, rows, sanVars, envVars, convVars, resVars, authVars, connVars>>

\* get_codelist_env(codelist_id)
GetCodelistEnv(codelist_id) ==
    /\ pc = "start"
    /\ LET r == get_codelist_env(msg, codelist_id) IN
       /\ raised' = r.raised
       /\ env' = r.env
    /\ last_call' = <<"get_codelist_env", codelist_id>>
    /\ pc' = "done"
    /\ UNCHANGED <<msg, rows, sanVars, envVars, convVars, resVars, authVars, connVars>>

NextDataSet ==
    \/ GetDimensionNames
    \/ GetDimensionNamesEnv
    \/ \E codelist_id \in CodelistIds : GetCodelistEnv(codelist_id)

SpecDataSet == InitDataSet /\ [][NextDataSet]_vars

(***************************************************************************)
(* Properties of sanitize and make_env.                                    *)
(***************************************************************************)
IdentifierChars == AsciiLetters \cup DecimalDigits \cup {"_"}

\* C6: for every label, sanitize returns a non-empty string that starts with
\* a letter, holds only letters, digits and "_", has no leading or trailing
\* "_" and no two "_" in a row; sanitize("1Y") = "X1Y", and a label without
\* any letter or digit gives "X".
C6_SanitizeShape ==
    pc = "done" =>
        /\ sanitized # <<>>
        /\ sanitized[1] \in AsciiLetters
        /\ \A i \in 1..Len(sanitized) : sanitized[i] \in IdentifierChars
        /\ sanitized[Len(sanitized)] # "_"
        /\ \A i \in 1..(Len(sanitized) - 1) :
               ~(sanitized[i] = "_" /\ sanitized[i + 1] = "_")
        /\ (name = <<"1", "Y">> => sanitized = <<"X", "1", "Y">>)
        /\ ((\A i \in 1..Len(name) : name[i] \notin AsciiLetters \cup DecimalDigits)
               => sanitized = <<"X">>)

C6_Witness ==
    /\ pc = "done"
    /\ name = <<"1", "Y">>
    /\ sanitized = <<"X", "1", "Y">>

\* the pairs of `pairs` that carry a code
Coded == {i \in 1..Len(pairs) : pairs[i].code \notin {None, ""}}

KeyOf(i) == sanitize(pairs[i].label)

Least(S) == CHOOSE i \in S : \A j \in S : i <= j
Greatest(S) == CHOOSE i \in S : \A j \in S : j <= i

\* C7: the keys of make_env's mapping are exactly the sanitized labels of
\* the pairs with a non-empty, non-absent code; each key maps to the code of
\* the earliest such pair with that key under keep="first", of the latest
\* under keep="last"; a pair without a code adds and changes nothing.
C7_MakeEnv ==
    pc = "done" =>
        /\ DOMAIN env = {KeyOf(i) : i \in Coded}
        /\ \A k \in DOMAIN env :
               LET same == {i \in Coded : KeyOf(i) = k} IN
               env[k] = pairs[IF keep = "first" THEN Least(same)
                                                ELSE Greatest(same)].code

\* an empty code comes first for a key shared by two different labels
C7_Witness ==
    /\ pc = "done"
    /\ Len(pairs) = 3
    /\ pairs[1].code = "" /\ pairs[2].code = "GDP" /\ pairs[3].code = "GDP2"
    /\ pairs[1].label # pairs[2].label
    /\ KeyOf(1) = KeyOf(2) /\ KeyOf(2) = KeyOf(3)
    /\ env[KeyOf(1)] = (IF keep = "first" THEN "GDP" ELSE "GDP2")

(***************************************************************************)
(* Properties of convert_time_period_auto.  The expected date is stated    *)
(* from the shape of the trimmed string, not from the parser's steps.      *)
(***************************************************************************)
IsNumeric(s) == s # <<>> /\ \A i \in 1..Len(s) : s[i] \in DecimalDigits

RECURSIVE DecVal(_, _)
DecVal(s, acc) ==
    IF s = <<>> THEN acc ELSE DecVal(Tail(s), 10 * acc + DigitValue(Head(s)))

\* the (year, n) readings of t as <numeric year> "-" letter <numeric n>
PeriodForms(t, letter) ==
    { [year |-> DecVal(SubSeq(t, 1, k - 1), 0), n |-> DecVal(SubSeq(t, k + 2, Len(t)), 0)] :
        k \in { j \in 1..(Len(t) - 1) :
                  /\ SubSeq(t, j, j + 1) = <<"-", letter>>
                  /\ IsNumeric(SubSeq(t, 1, j - 1))
                  /\ IsNumeric(SubSeq(t, j + 2, Len(t))) } }

LastDayOf(y, m) == Date(y, m, DaysInMonth(y, m))

\* the date the rules give for the trimmed string t, the years of `years`
\* being those that have a date
ExpectedDate(t, years) ==
    LET monthly == {f \in PeriodForms(t, "M") : 1 <= f.n /\ f.n <= 12}
        quarterly == {f \in PeriodForms(t, "Q") : 1 <= f.n /\ f.n <= 4}
    IN IF monthly # {}
       THEN LET f == CHOOSE g \in monthly : TRUE IN
            IF f.year \in years THEN LastDayOf(f.year, f.n) ELSE NaT
       ELSE IF quarterly # {}
       THEN LET f == CHOOSE g \in quarterly : TRUE IN
            IF f.year \in years THEN LastDayOf(f.year, 3 * f.n) ELSE NaT
       ELSE IF Len(t) = 4 /\ IsNumeric(t)
       THEN IF DecVal(t, 0) \in years THEN Date(DecVal(t, 0), 12, 31) ELSE NaT
       ELSE NaT

Trimmed(i) == StripChars(time_col[i], Whitespace)

Declares(rep) == rep.present /\ rep.enumerated # NoCodelist

\* C3: resolve_codelist returns the codelist of the first strategy that
\* matches, in the order local representation, concept's core
\* representation, "CL_<component id>", a strategy matching exactly when
\* its id is in the message's codelist collection; else it returns none.
C3_AsStated ==
    pc = "done" =>
        LET lr == component.local_representation
            cr == component.concept_identity.core_representation
            guess == GuessId(component.id)
        IN resolved =
             IF Declares(lr) /\ lr.enumerated.id \in DOMAIN ds_codelist
             THEN ds_codelist[lr.enumerated.id]
             ELSE IF component.concept_identity.present /\ Declares(cr)
                     /\ cr.enumerated.id \in DOMAIN ds_codelist
             THEN ds_codelist[cr.enumerated.id]
             ELSE IF guess \in DOMAIN ds_codelist THEN ds_codelist[guess]
             ELSE NoCodelist

(***************************************************************************)
(* Properties of acquire_access_token.                                     *)
(***************************************************************************)
Positions(e) == {i \in 1..Len(acq.events) : acq.events[i] = e}

Attempted(e) == Positions(e) # {}

\* the cache state changed: an attempt that was made changed it
CacheChanged ==
    \/ Attempted("silent") /\ msal.silent_changes
    \/ Attempted("interactive") /\ msal.interactive_changes

\* C4: in every run, whether it returns a token or fails with the
\* Authentication error, the cache is written back if and only if its state
\* changed, once, after the last acquisition attempt and before the run
\* returns or fails.
C4_PersistAfterAttempts ==
    pc = "done" =>
        /\ Attempted("write") <=> CacheChanged
        /\ Cardinality(Positions("write")) <= 1
        /\ \A w \in Positions("write") :
               /\ \A a \in Positions("silent") \cup Positions("interactive") : a < w
               /\ w < Len(acq.events)
        /\ acq.events[Len(acq.events)] \in {"return", "raise"}
        /\ Positions("return") \cup Positions("raise") = {Len(acq.events)}

\* interactive after a failed silent attempt, ending in the error
C4_Witness ==
    /\ pc = "done"
    /\ acq.events = <<"load", "silent", "interactive", "write", "raise">>
    /\ ~msal.silent_changes
    /\ raised = "RuntimeError"

\* the text the error carries for the result r
Carried(r) ==
    IF r.none THEN "unknown error"
    ELSE IF "error_description" \in DOMAIN r.fields THEN r.fields["error_description"]
    ELSE IF "error" \in DOMAIN r.fields THEN r.fields["error"]
    ELSE "unknown error"

\* C5: silent acquisition is attempted only when the cache holds an
\* account, against the first one; whenever it did not yield a token (not
\* attempted, nothing returned, or a result without access_token) the
\* interactive flow is attempted; the error is raised only when the
\* interactive flow also yielded no access_token, and carries the error
\* description, else the error code, else "unknown error".
C5_AsStated ==
    pc = "done" =>
        /\ Attempted("silent") =>
               msal.accounts # <<>> /\ acq.silent_account = msal.accounts[1]
        /\ ~(Attempted("silent") /\ HasToken(msal.silent)) => Attempted("interactive")
        /\ raised # None =>
               /\ Attempted("interactive")
               /\ ~HasToken(msal.interactive)
               /\ acq.message = Carried(msal.interactive)

(***************************************************************************)
(* Properties of the Connection.                                           *)
(***************************************************************************)
StatusMatchesHeaders ==
    constructed =>
        /\ authenticated <=> "Authorization" \in DOMAIN headers
        /\ "User-Agent" \in DOMAIN headers

FailedAuthenticate ==
    raised' # None /\ last_call' = <<"authenticate", None>>

\* C10: after construction and after any sequence of authenticate() and
\* remove_authentication(), failing ones included, `authenticated` is true
\* if and only if the headers hold an Authorization entry, and User-Agent
\* is always present; a failed authenticate() changes neither the headers
\* nor the flag.
C10_StatusFlag ==
    /\ []StatusMatchesHeaders
    /\ [][FailedAuthenticate => headers' = headers /\ authenticated' = authenticated]_vars

\* authenticate() fails on a Connection that an earlier authenticate() had
\* given a token
C10_Witness ==
    /\ constructed
    /\ calls = 3
    /\ last_call = <<"authenticate", None>>
    /\ raised = "RuntimeError"
    /\ authenticated
    /\ headers["Authorization"] = <<"PoP", "t2">>

(***************************************************************************)
(* Properties of the Dataset Handle.                                       *)
(***************************************************************************)
\* the codelist id the concept's core representation declares, else None
DeclaredCodelist(dim) ==
    IF /\ dim.concept_identity.present
       /\ Declares(dim.concept_identity.core_representation)
    THEN dim.concept_identity.core_representation.enumerated.id
    ELSE None

\* every dimension has a concept with a core representation
AllConceptsRepresented ==
    \A i \in 1..Len(msg.dimensions) :
        /\ msg.dimensions[i].concept_identity.present
        /\ msg.dimensions[i].concept_identity.core_representation.present

\* C8: get_dimension_names_env() and get_codelist_env(id) return a Lookup
\* Environment over the rows, label = name and code = id: every row with a
\* non-empty id has its sanitized name as a key, mapped to the id of the
\* first such row with that key; get_codelist_env(id) succeeds for every
\* codelist id of the message.  (A dimension row is named by its dimension
\* id; either of its two ids is accepted as the code.)
C8_AsStated ==
    pc = "done" =>
        /\ (last_call[1] = "get_dimension_names_env" /\ AllConceptsRepresented) =>
               /\ raised = None
               /\ \A i \in 1..Len(msg.dimensions) :
                      LET dim == msg.dimensions[i]
                          k == sanitize(Chars(dim.id))
                      IN /\ k \in DOMAIN env
                         /\ env[k] \in {dim.id, DeclaredCodelist(dim)}
        /\ (last_call[1] = "get_codelist_env" /\ last_call[2] \in DOMAIN msg.codelist) =>
               /\ raised = None
               /\ LET codes == msg.codelist[last_call[2]]
                      withId == {i \in 1..Len(codes) : codes[i].code_id # ""}
                  IN \A i \in withId :
                         LET k == sanitize(Chars(codes[i].name))
                             same == {j \in withId : sanitize(Chars(codes[j].name)) = k}
                         IN /\ k \in DOMAIN env
                            /\ env[k] = codes[Least(same)].code_id

\* C9: the dimension listing returns one row per dimension, in declared
\* order, with the dimension id and the codelist id the concept's core
\* representation declares, or null when it declares none or the concept
\* has no core representation; it never fails for an uncoded dimension.
C9_AsStated ==
    (pc = "done" /\ last_call[1] = "get_dimension_names") =>
        /\ raised = None
        /\ Len(rows) = Len(msg.dimensions)
        /\ \A i \in 1..Len(msg.dimensions) :
               rows[i] = DimensionRow(msg.dimensions[i].id,
                                      DeclaredCodelist(msg.dimensions[i]))

====
